---- MODULE Spec2Model ----
(***************************************************************************)
(* Model of src/main.py: class InvestmentStrategies, which backtests       *)
(* lump-sum investing against dollar-cost averaging over every rolling     *)
(* window of a monthly price series.                                       *)
(*                                                                         *)
(* The arithmetic of the program is binary floating point (numpy float64). *)
(* It is modelled by a binary floating-point format with round-to-nearest, *)
(* ties-to-even, and a significand of Precision bits instead of 53; the    *)
(* exponent is unbounded (no overflow or underflow occurs on the inputs    *)
(* considered).  x ** y is not evaluated: an annualized return is kept as  *)
(* the pair (base, number of prices) that determines it, except for the    *)
(* two cases IEEE 754 fixes exactly, pow(1, y) = 1 and pow(NaN, y) = NaN.  *)
(***************************************************************************)
EXTENDS Integers, Sequences, FiniteSets, TLC

\* ------------------------------------------------------------------------
\* Bounds of the model
\* ------------------------------------------------------------------------
\* number of significand bits of the modelled floating-point format
Precision == 4
\* longest and shortest downloaded price series
MaxLen == 14
MinLen == 12
\* longest list of window lengths handed to the constructor
MaxYears == 2

\* ------------------------------------------------------------------------
\* Floating point
\* ------------------------------------------------------------------------
RECURSIVE Pow2(_)
Pow2(k) == IF k <= 0 THEN 1 ELSE 2 * Pow2(k - 1)

Abs(x) == IF x < 0 THEN -x ELSE x

Sign(x) == IF x < 0 THEN -1 ELSE 1

\* a finite value is m * 2^e with m = 0 or 2^(Precision-1) <= |m| < 2^Precision
Flt(m, e) == [nan |-> FALSE, m |-> m, e |-> e]

Zero == Flt(0, 0)

NaN == [nan |-> TRUE, m |-> 0, e |-> 0]

\* scale num/den by powers of two until the quotient has Precision bits
RECURSIVE Scale(_, _, _)
Scale(num, den, e) ==
    IF num >= Pow2(Precision) * den THEN Scale(num, 2 * den, e + 1)
    ELSE IF num < Pow2(Precision - 1) * den THEN Scale(2 * num, den, e - 1)
    ELSE <<num, den, e>>

\* the float nearest to (n / d) * 2^e0, ties to even; d > 0
Round(n, d, e0) ==
    IF n = 0 THEN Zero
    ELSE LET s  == Scale(Abs(n), d, e0)
             q  == s[1] \div s[2]
             r  == s[1] % s[2]
             up == (2 * r > s[2]) \/ (2 * r = s[2] /\ q % 2 = 1)
             m  == IF up THEN q + 1 ELSE q
         IN  IF m = Pow2(Precision)
             THEN Flt(Sign(n) * Pow2(Precision - 1), s[3] + 1)
             ELSE Flt(Sign(n) * m, s[3])

\* conversion of a Python int to float
FromInt(n) == Round(n, 1, 0)

FMul(x, y) ==
    IF x.nan \/ y.nan THEN NaN ELSE Round(x.m * y.m, 1, x.e + y.e)

\* 0/0 is NaN; x/0 with x # 0 does not arise (prices are positive)
FDiv(x, y) ==
    IF x.nan \/ y.nan \/ y.m = 0 THEN NaN
    ELSE Round(x.m * Sign(y.m), Abs(y.m), x.e - y.e)

Min(a, b) == IF a < b THEN a ELSE b

FAdd(x, y) ==
    IF x.nan \/ y.nan THEN NaN
    ELSE IF x.m = 0 THEN y
    ELSE IF y.m = 0 THEN x
    ELSE LET e == Min(x.e, y.e)
         IN  Round(x.m * Pow2(x.e - e) + y.m * Pow2(y.e - e), 1, e)

FNeg(x) == IF x.nan THEN NaN ELSE Flt(-x.m, x.e)

FSub(x, y) == FAdd(x, FNeg(y))

\* x > y; every comparison with NaN is false
FGt(x, y) ==
    IF x.nan \/ y.nan THEN FALSE
    ELSE LET e == Min(x.e, y.e)
         IN  x.m * Pow2(x.e - e) > y.m * Pow2(y.e - e)

One == FromInt(1)

\* ------------------------------------------------------------------------
\* Inputs
\* ------------------------------------------------------------------------
\* amounts handed to the constructor: 0 is not rejected by __init__
Amounts == {0, 10, 13}

\* window lengths in years handed to the constructor; __init__ rejects none
YearValues == {-1, 0, 1, 2}

RECURSIVE SeqsUpTo(_, _)
SeqsUpTo(S, n) ==
    IF n = 0 THEN {<<>>}
    ELSE LET shorter == SeqsUpTo(S, n - 1)
         IN  shorter \cup {Append(q, y) : q \in {t \in shorter : Len(t) = n - 1}, y \in S}

YearLists == SeqsUpTo(YearValues, MaxYears)

\* monthly adjusted closing prices, all positive
PriceValues == {FromInt(3), FromInt(8)}

\* a series that moves from price p to price q after month k
StepSeries(L, p, q, k) == [i \in 1..L |-> IF i <= k THEN p ELSE q]

\* a series at price p except for month k at price q
SpikeSeries(L, p, q, k) == [i \in 1..L |-> IF i = k THEN q ELSE p]

\* the histories the price-data source may return: flat ones and ones whose
\* price changes in one of the last four months
DataSet ==
    UNION {{StepSeries(L, p, q, k) : p \in PriceValues, q \in PriceValues, k \in (L - 3)..L}
           \cup {SpikeSeries(L, p, q, k) : p \in PriceValues, q \in PriceValues, k \in (L - 3)..L}
           : L \in MinLen..MaxLen}

\* ------------------------------------------------------------------------
\* Pure functions of the program
\* ------------------------------------------------------------------------
\* base ** (1 / (n / 12)) - 1, kept as the pair that determines it
AnnualizedReturn(base, n) == [base |-> base, n |-> n]

\* pow(1, y) - 1 = 0 exactly
IsZeroReturn(r) == r.base = One

IsNaNReturn(r) == r.base.nan

\* data.iloc[a:b]: Python slice bounds, negative ones counted from the end
SliceBound(i, L) ==
    IF i < 0 THEN (IF i + L < 0 THEN 0 ELSE i + L)
    ELSE IF i > L THEN L ELSE i

\* a slice that takes the stop index as inclusive
ILoc_inclusive(s, a, b) ==
    SubSeq(s, SliceBound(a, Len(s)) + 1, SliceBound(b + 1, Len(s)))

ILoc(s, a, b) == SubSeq(s, SliceBound(a, Len(s)) + 1, SliceBound(b, Len(s)))

\* np.sum of the shares, accumulated from the first element on (numpy adds
\* in blocks; the order changes the rounding, not the shape of the result)
RECURSIVE NpSum(_)
NpSum(s) ==
    IF Len(s) = 0 THEN Zero
    ELSE FAdd(NpSum(SubSeq(s, 1, Len(s) - 1)), s[Len(s)])

\* invest_lumpsum(amount, prices), amount a Python int, prices non-empty
invest_lumpsum(amt, prices) ==
    LET shares_bought == FDiv(FromInt(amt), prices[1])
        ending_value  == FMul(shares_bought, prices[Len(prices)])
    IN  [ending_value |-> ending_value,
         annualized_return |->
             AnnualizedReturn(FDiv(ending_value, FromInt(amt)), Len(prices))]

\* invest_dca(amount, prices), amount the float invested each month
invest_dca(amt, prices) ==
    LET shares_bought_each_period == [i \in 1..Len(prices) |-> FDiv(amt, prices[i])]
        total_shares_bought   == NpSum(shares_bought_each_period)
        avg_cost_per_share    ==
            FDiv(FMul(amt, FromInt(Len(prices))), total_shares_bought)
        final_value_per_share == prices[Len(prices)]
        ending_value          == FMul(total_shares_bought, final_value_per_share)
        total_return          ==
            FDiv(FSub(final_value_per_share, avg_cost_per_share), avg_cost_per_share)
    IN  [ending_value |-> ending_value,
         annualized_return |->
             AnnualizedReturn(FAdd(One, total_return), Len(prices))]

\* self.amount / (year * 12): true division of two Python ints, year # 0
PeriodicAmount(amt, year) == Round(amt * Sign(year), Abs(year) * 12, 0)

\* a range that runs one start index too far
RangeStop_plus_one(d, year) == Len(d) - year * 12 + 1

\* range(len(data) - year * 12): the number of start indices
RangeStop(d, year) == Len(d) - year * 12

\* a comparison that credits ties to lump sum
LumpSumWins_on_tie(lumpsum_ending_value, dca_ending_value) ==
    ~ FGt(dca_ending_value, lumpsum_ending_value)

\* the comparison that credits a window to lump sum
LumpSumWins(lumpsum_ending_value, dca_ending_value) ==
    FGt(lumpsum_ending_value, dca_ending_value)

\* calculate_win_ratio(lumpsum_wins, dca_wins)
calculate_win_ratio(lw, dw) ==
    LET total_wins == lw + dw
    IN  total_wins

\* np.mean(returns) * 100, kept as the list that determines it; the mean of
\* an empty list is NaN
MeanPercent(returns) ==
    [nan |-> (returns = <<>>) \/ (\E i \in 1..Len(returns) : IsNaNReturn(returns[i])),
     of  |-> returns]

\* the dictionary test_strategies appends for one window length
SummaryRecord(year, lw, dw, lrets, drets) ==
    [Year           |-> year,
     LumpSumWins    |-> lw,
     DcaWins        |-> dw,
     AvgLumpSum     |-> MeanPercent(lrets),
     AvgDCA         |-> MeanPercent(drets),
     LumpSumWinRatio |-> calculate_win_ratio(lw, dw)]

\* a record put in front of the list
AppendResult_in_front(rs, rec) == <<rec>> \o rs

AppendResult(rs, rec) == Append(rs, rec)

\* ------------------------------------------------------------------------
\* State
\* ------------------------------------------------------------------------
VARIABLES
    amount,           \* self.amount
    years,            \* self.years
    pc,               \* position in test_strategies
    data,             \* the downloaded price series
    results,          \* the list of summary records
    yi,               \* position of the loop over self.years
    start,            \* next start index of the loop of simulate_strategies
    lumpsum_wins,
    dca_wins,
    lumpsum_returns,
    dca_returns,
    evaluated,        \* history: the windows evaluated by the current call
    returned          \* history: the values returned by simulate_strategies

vars == <<amount, years, pc, data, results, yi, start, lumpsum_wins, dca_wins,
          lumpsum_returns, dca_returns, evaluated, returned>>

Init ==
    /\ amount \in Amounts
    /\ years \in YearLists
    /\ pc = "constructed"
    /\ data = <<>>
    /\ results = <<>>
    /\ yi = 1
    /\ start = 0
    /\ lumpsum_wins = 0
    /\ dca_wins = 0
    /\ lumpsum_returns = <<>>
    /\ dca_returns = <<>>
    /\ evaluated = <<>>
    /\ returned = <<>>

\* test_strategies up to the loop: the data is downloaded once
TestStrategies ==
    /\ pc = "constructed"
    /\ results' = <<>>
    /\ data' \in DataSet
    /\ yi' = 1
    /\ pc' = "for_year"
    /\ UNCHANGED <<amount, years, start, lumpsum_wins, dca_wins,
                   lumpsum_returns, dca_returns, evaluated, returned>>

\* a call that keeps the tallies of the call before it
SimulateEnter_stale_tallies ==
    /\ pc = "for_year"
    /\ yi <= Len(years)
    /\ start' = 0
    /\ evaluated' = <<>>
    /\ pc' = "for_start"
    /\ UNCHANGED <<amount, years, data, results, yi, returned,
                   lumpsum_wins, dca_wins, lumpsum_returns, dca_returns>>

\* the call of simulate_strategies for the next year: its locals are set
SimulateEnter ==
    /\ pc = "for_year"
    /\ yi <= Len(years)
    /\ lumpsum_wins' = 0
    /\ dca_wins' = 0
    /\ lumpsum_returns' = <<>>
    /\ dca_returns' = <<>>
    /\ start' = 0
    /\ evaluated' = <<>>
    /\ pc' = "for_start"
    /\ UNCHANGED <<amount, years, data, results, yi, returned>>

\* one iteration of the loop over the start indices
WindowStep ==
    /\ pc = "for_start"
    /\ start < RangeStop(data, years[yi])
    /\ LET year   == years[yi]
           prices == ILoc(data, start, start + year * 12)
       IN  IF prices = <<>>
           THEN \* prices[0] of an empty series: IndexError
                /\ pc' = "raised"
                /\ UNCHANGED <<start, lumpsum_wins, dca_wins, lumpsum_returns,
                               dca_returns, evaluated>>
           ELSE LET ls  == invest_lumpsum(amount, prices)
                    dca == invest_dca(PeriodicAmount(amount, year), prices)
                IN  /\ lumpsum_returns' = Append(lumpsum_returns, ls.annualized_return)
                    /\ dca_returns' = Append(dca_returns, dca.annualized_return)
                    /\ IF LumpSumWins(ls.ending_value, dca.ending_value)
                       THEN /\ lumpsum_wins' = lumpsum_wins + 1
                            /\ dca_wins' = dca_wins
                       ELSE /\ dca_wins' = dca_wins + 1
                            /\ lumpsum_wins' = lumpsum_wins
                    /\ evaluated' = Append(evaluated,
                           [start |-> start, prices |-> prices,
                            lumpsum |-> ls, dca |-> dca])
                    /\ start' = start + 1
                    /\ pc' = "for_start"
    /\ UNCHANGED <<amount, years, data, results, yi, returned>>

\* simulate_strategies returns and test_strategies appends the record
SimulateReturn ==
    /\ pc = "for_start"
    /\ start >= RangeStop(data, years[yi])
    /\ returned' = Append(returned,
           [year |-> years[yi], lumpsum_wins |-> lumpsum_wins, dca_wins |-> dca_wins,
            lumpsum_returns |-> lumpsum_returns, dca_returns |-> dca_returns])
    /\ results' = AppendResult(results,
           SummaryRecord(years[yi], lumpsum_wins, dca_wins, lumpsum_returns, dca_returns))
    /\ yi' = yi + 1
    /\ pc' = "for_year"
    /\ UNCHANGED <<amount, years, data, start, lumpsum_wins, dca_wins,
                   lumpsum_returns, dca_returns, evaluated>>

\* the loop over self.years is exhausted: the DataFrame is returned
Finish ==
    /\ pc = "for_year"
    /\ yi > Len(years)
    /\ pc' = "done"
    /\ UNCHANGED <<amount, years, data, results, yi, start, lumpsum_wins, dca_wins,
                   lumpsum_returns, dca_returns, evaluated, returned>>

Next ==
    \/ TestStrategies
    \/ SimulateEnter
    \/ WindowStep
    \/ SimulateReturn
    \/ Finish

Spec == Init /\ [][Next]_vars

\* ------------------------------------------------------------------------
\* Properties
\* ------------------------------------------------------------------------
Last(s) == s[Len(s)]

\* C1: the two counters sum to the number of windows evaluated so far at
\* every step of the loop, and a call that returns for a series longer than
\* the window returns counters that sum to len(data) - year * 12.
C1_WinsSumToWindowCount ==
    /\ pc \in {"for_start", "raised"} =>
           /\ lumpsum_wins + dca_wins = Len(evaluated)
           /\ Len(evaluated) = start
    /\ \A i \in 1..Len(returned) :
           Len(data) - returned[i].year * 12 > 0 =>
               returned[i].lumpsum_wins + returned[i].dca_wins
                   = Len(data) - returned[i].year * 12

C1_Witness ==
    /\ returned # <<>>
    /\ Len(data) - returned[1].year * 12 = 2
    /\ returned[1].lumpsum_wins + returned[1].dca_wins = 2

\* C4: every evaluated window increments exactly one counter by one: the
\* lump-sum counter iff the lump-sum ending value is strictly greater than
\* the DCA ending value, the DCA counter otherwise (ties included).
C4_OneCounterPerWindow ==
    [][Len(evaluated') = Len(evaluated) + 1 =>
          LET w == Last(evaluated')
          IN  IF FGt(w.lumpsum.ending_value, w.dca.ending_value)
              THEN lumpsum_wins' = lumpsum_wins + 1 /\ dca_wins' = dca_wins
              ELSE dca_wins' = dca_wins + 1 /\ lumpsum_wins' = lumpsum_wins]_vars

\* a tie on a positive amount and window length was credited to DCA
C4_Witness ==
    /\ pc = "for_start"
    /\ amount > 0
    /\ years[yi] > 0
    /\ Len(evaluated) = 1
    /\ evaluated[1].lumpsum.ending_value = evaluated[1].dca.ending_value
    /\ lumpsum_wins = 0
    /\ dca_wins = 1

\* the windows a series d has for a window length of year years
WindowStarts(d, year) == 0..(Len(d) - year * 12 - 1)

WindowAt(d, year, s) == [k \in 1..(year * 12) |-> d[s + k]]

\* C9: for a series longer than the window, the start indices 0, 1, ...,
\* len - windowMonths - 1 are evaluated once each in increasing order, the
\* window of start index s being the prices at s .. s + windowMonths - 1.
C9_WindowsInOrder ==
    /\ (pc = "for_start" /\ years[yi] > 0 /\ years[yi] * 12 < Len(data)) =>
           /\ Len(evaluated) = start
           /\ start <= Len(data) - years[yi] * 12
           /\ \A i \in 1..Len(evaluated) :
                  /\ evaluated[i].start = i - 1
                  /\ evaluated[i].start \in WindowStarts(data, years[yi])
                  /\ evaluated[i].start + years[yi] * 12 <= Len(data)
                  /\ evaluated[i].prices = WindowAt(data, years[yi], i - 1)
    /\ \A j \in 1..Len(returned) :
           (returned[j].year > 0 /\ returned[j].year * 12 < Len(data)) =>
               Len(returned[j].lumpsum_returns)
                   = Cardinality(WindowStarts(data, returned[j].year))

\* windowMonths = len - 1: the call has returned after the one window at 0
C9_Witness ==
    /\ pc = "for_year"
    /\ returned # <<>>
    /\ Last(returned).year * 12 = Len(data) - 1
    /\ Len(evaluated) = 1
    /\ evaluated[1].start = 0
    /\ evaluated[1].prices = SubSeq(data, 1, Len(data) - 1)

\* the record of a window length computed from the series alone
RecordOf(amt, d, year) ==
    LET starts == WindowStarts(d, year)
        n      == Cardinality(starts)
        ls(s)  == invest_lumpsum(amt, WindowAt(d, year, s))
        dca(s) == invest_dca(PeriodicAmount(amt, year), WindowAt(d, year, s))
        lw     == Cardinality({s \in starts :
                      FGt(ls(s).ending_value, dca(s).ending_value)})
    IN  SummaryRecord(year, lw, n - lw,
                      [i \in 1..n |-> ls(i - 1).annualized_return],
                      [i \in 1..n |-> dca(i - 1).annualized_return])

\* C5: the records follow the order of the requested window lengths: every
\* step leaves one record per window length whose simulation is complete
\* and none for one that is not, a new record goes to the end of the list
\* and is determined by the amount, the series and its own window length,
\* and a finished run has one record per requested window length.
C5_OneRecordPerYearInOrder ==
    [][/\ pc' \in {"for_year", "for_start", "done"} => Len(results') = yi' - 1
       /\ Len(results') = Len(returned')
       /\ results' # results =>
              /\ yi' = yi + 1
              /\ results' = Append(results, RecordOf(amount, data, years[yi]))
              /\ Last(results').Year = years[Len(results')]
       /\ pc' = "done" => Len(results') = Len(years)]_vars

\* a finished run over two different window lengths, the first with windows
C5_Witness ==
    /\ pc = "done"
    /\ Len(years) = 2
    /\ years[1] # years[2]
    /\ Len(results) = 2
    /\ results[1].LumpSumWins + results[1].DcaWins = 2

\* C8: while simulate_strategies runs, the stored amount, the stored window
\* lengths and the series are unchanged, and what a call returns is what
\* every earlier call for the same window length returned.
C8_SimulateIsPure ==
    [][/\ pc = "for_start" =>
              (amount' = amount /\ years' = years /\ data' = data)
       /\ Len(returned') = Len(returned) + 1 =>
              \A i \in 1..Len(returned) :
                  returned[i].year = Last(returned').year =>
                      returned[i] = Last(returned')]_vars

\* two calls in succession for the same window length, with windows
C8_Witness ==
    /\ Len(returned) = 2
    /\ returned[1].year = returned[2].year
    /\ Len(returned[2].lumpsum_returns) = 2
    /\ returned[1] = returned[2]

\* C2: the win ratio of a record over at least one window is
\* lumpSumWins / (lumpSumWins + dcaWins) * 100, a value in [0, 100].
C2_WinRatioIsPercentage ==
    \A i \in 1..Len(results) :
        LET r == results[i]
        IN  r.LumpSumWins + r.DcaWins > 0 =>
                /\ r.LumpSumWinRatio * (r.LumpSumWins + r.DcaWins)
                       = r.LumpSumWins * 100
                /\ r.LumpSumWinRatio >= 0
                /\ r.LumpSumWinRatio <= 100

\* C3: a window length of at least the length of the series is reported as
\* insufficient data: the run does not raise on it and no summary record
\* holds averages and a win ratio taken over no window at all.
C3_InsufficientDataReported ==
    /\ \A i \in 1..Len(results) :
           (results[i].Year > 0 /\ results[i].Year * 12 >= Len(data)) =>
               ~ (results[i].AvgLumpSum.of = <<>> /\ results[i].AvgDCA.of = <<>>)
    /\ (pc = "raised" /\ years[yi] > 0) => years[yi] * 12 < Len(data)

\* the inputs the run is to reject
InvalidInput ==
    \/ amount <= 0
    \/ years = <<>>
    \/ \E i \in 1..Len(years) : years[i] <= 0

\* C6: a run on a non-positive amount, an empty list of window lengths or a
\* non-positive window length stops before anything is computed: no data
\* acquired, no window evaluated, no record produced.
C6_InvalidInputFailsFast ==
    InvalidInput =>
        /\ pc \in {"constructed", "InvalidInput"}
        /\ data = <<>>
        /\ evaluated = <<>>
        /\ results = <<>>

\* C7: on a positive amount and a window whose first and last price are
\* equal, lump sum ends at the invested amount with an annualized return 0.
C7_LumpSumFlatWindow ==
    \A i \in 1..Len(evaluated) :
        LET w == evaluated[i]
        IN  (amount > 0 /\ w.prices[1] = Last(w.prices)) =>
                /\ w.lumpsum.ending_value = FromInt(amount)
                /\ IsZeroReturn(w.lumpsum.annualized_return)

\* C10: in every window, on a positive amount and window length, the growth
\* factor of DCA is its ending value over the total amount, and the window
\* is credited to lump sum iff the growth factor of lump sum is strictly
\* the greater one.
C10_TallyAgreesWithReturns ==
    (pc \in {"for_start", "raised"} /\ amount > 0 /\ years[yi] > 0) =>
        \A i \in 1..Len(evaluated) :
            LET w     == evaluated[i]
                total == FMul(PeriodicAmount(amount, years[yi]),
                              FromInt(Len(w.prices)))
                lsg   == w.lumpsum.annualized_return.base
                dcag  == w.dca.annualized_return.base
            IN  /\ dcag = FDiv(w.dca.ending_value, total)
                /\ LumpSumWins(w.lumpsum.ending_value, w.dca.ending_value)
                       <=> FGt(lsg, dcag)

====
